---- MODULE Spec2Model ----
(***************************************************************************)
(* Label generation (socceraction.vaep.labels) and the Hybrid-VAEP value   *)
(* formula (socceraction.hybrid_vaep.formula) as a state machine: the      *)
(* caller holds an action table and probability series, makes one call,    *)
(* and the call's outcome (returned series or raised exception) is stored. *)
(*                                                                         *)
(* Positions are 1-based here; the source's row p-1 is position p.         *)
(* Probabilities and values are integers in units of 10^-6.                *)
(***************************************************************************)
EXTENDS Integers, Sequences, FiniteSets, TLC

VARIABLES actions, probs, call, result, events

vars == <<actions, probs, call, result, events>>

(***************************************************************************)
(* Bounds of the model.                                                    *)
(***************************************************************************)
MaxLen == 3         \* longest action table given to the count-based labelers
MaxK == 3           \* largest nr_actions given to the count-based labelers
MaxLenT == 3        \* longest timed action table
MaxKT == 2          \* largest nr_actions given with a timed table
MaxSeconds == 2     \* largest nr_seconds given
MaxLenF == 2        \* longest action table given to the value formula
MaxLenA == 2        \* longest action table given with misaligned series

(***************************************************************************)
(* Vocabulary.                                                             *)
(***************************************************************************)
\* team_id of an event without a team (mygameplan.py line 71: None).
NullTeam == 0

Teams == {1, 2, NullTeam}

\* spadl.config.results, by name; result_id is the position in this list.
results == <<"fail", "success", "offside", "owngoal", "yellow_card", "red_card">>

ResultIndex(name) == CHOOSE k \in 1..Len(results) : results[k] = name

\* The action types whose name contains the substring "shot".
ShotNamed == {"shot", "shot_penalty", "shot_freekick"}

StrContainsShot(type_name) == type_name \in ShotNamed

Min(a, b) == IF a <= b THEN a ELSE b

Abs(a) == IF a >= 0 THEN a ELSE -a

(***************************************************************************)
(* pandas element comparison on the team_id column: a missing value is     *)
(* equal to nothing, itself included, and different from everything.       *)
(***************************************************************************)
TeamEq(a, b) == a # NullTeam /\ b # NullTeam /\ a = b

TeamNe(a, b) == ~TeamEq(a, b)

(***************************************************************************)
(* Columns of the frame y of the labelers.                                 *)
(***************************************************************************)
goals(acts) ==
    [p \in 1..Len(acts) |->
        StrContainsShot(acts[p].type_name)
        /\ ResultIndex(acts[p].result_name) = ResultIndex("success")]

owngoals(acts) ==
    [p \in 1..Len(acts) |->
        StrContainsShot(acts[p].type_name)
        /\ ResultIndex(acts[p].result_name) = ResultIndex("owngoal")]

team_ids(acts) == [p \in 1..Len(acts) |-> acts[p].team_id]

MakeY(acts) ==
    [goal |-> goals(acts), owngoal |-> owngoals(acts), team_id |-> team_ids(acts)]

(***************************************************************************)
(* y[c].shift(-i) followed by shifted[-i:] = y[c].iloc[len(y) - 1]:        *)
(* the shift leaves exactly the last min(i, n) rows missing and the slice  *)
(* assignment overwrites exactly those rows with the last row's value.     *)
(* Only called on a non-empty column (iloc raises on an empty one).        *)
(***************************************************************************)
\* The rows past the end filled with the first row's value.
ShiftedFillFirst(col, i) ==
    [p \in 1..Len(col) |-> IF p + i <= Len(col) THEN col[p + i] ELSE col[1]]

Shifted(col, i) ==
    [p \in 1..Len(col) |-> IF p + i <= Len(col) THEN col[p + i] ELSE col[Len(col)]]

(***************************************************************************)
(* A pandas Series as the labelers use it: its name and its values.  The   *)
(* result of a binary operation keeps a name only when both operands carry *)
(* that same name.                                                         *)
(***************************************************************************)
NoName == "None"

Series(name, values) == [name |-> name, values |-> values]

OpName(a, b) == IF a = b THEN a ELSE NoName

\* gi and ogi combine the column "goal+i" / "owngoal+i" with an unnamed
\* comparison of "team_id+i" and "team_id".
TermName(column) == OpName(column, OpName("team_id+i", "team_id"))

(***************************************************************************)
(* One round of the accumulation loop of scores: res | gi | ogi.           *)
(***************************************************************************)
ScoresStep(y, res, i) ==
    Series(OpName(OpName(res.name, TermName("goal+i")), TermName("owngoal+i")),
        [p \in 1..Len(res.values) |->
            res.values[p]
            \/ (Shifted(y.goal, i)[p]
                /\ TeamEq(Shifted(y.team_id, i)[p], y.team_id[p]))
            \/ (Shifted(y.owngoal, i)[p]
                /\ TeamNe(Shifted(y.team_id, i)[p], y.team_id[p]))])

ConcedesStep(y, res, i) ==
    Series(OpName(OpName(res.name, TermName("goal+i")), TermName("owngoal+i")),
        [p \in 1..Len(res.values) |->
            res.values[p]
            \/ (Shifted(y.goal, i)[p]
                /\ TeamNe(Shifted(y.team_id, i)[p], y.team_id[p]))
            \/ (Shifted(y.owngoal, i)[p]
                /\ TeamEq(Shifted(y.team_id, i)[p], y.team_id[p]))])

\* The accumulation reduced to its last round: only offset nr_actions - 1 is read.
ScoresLoopLastOffset(y, res, i, nr_actions) ==
    IF nr_actions <= 1 THEN res ELSE ScoresStep(y, res, nr_actions - 1)

\* for i in range(1, nr_actions): res = res | gi | ogi, having done rounds 1..i-1.
RECURSIVE ScoresLoop(_, _, _, _)
ScoresLoop(y, res, i, nr_actions) ==
    IF i >= nr_actions THEN res
    ELSE ScoresLoop(y, ScoresStep(y, res, i), i + 1, nr_actions)

RECURSIVE ConcedesLoop(_, _, _, _)
ConcedesLoop(y, res, i, nr_actions) ==
    IF i >= nr_actions THEN res
    ELSE ConcedesLoop(y, ConcedesStep(y, res, i), i + 1, nr_actions)

(***************************************************************************)
(* Outcome of a call: the rows of the returned one-column frame, or the    *)
(* exception raised.                                                       *)
(***************************************************************************)
Ok(out) == [status |-> "ok", out |-> out]

Raise(exc) == [status |-> "raise", out |-> exc]

(***************************************************************************)
(* pd.DataFrame(res, columns=[column]): a named Series is taken as the     *)
(* one-entry mapping {name: res} and `columns` selects from it, so a name  *)
(* other than `column` selects nothing and the frame has no rows; an       *)
(* unnamed Series becomes the column, row for row.                         *)
(***************************************************************************)
DataFrame(res, column) ==
    IF res.name # NoName /\ res.name # column THEN <<>> ELSE res.values

\* The first loop (range(1, nr_actions)) evaluates y[c].iloc[len(y) - 1] in its
\* first round: IndexError on an empty frame.
ShiftRaises(acts, nr_actions) == nr_actions >= 2 /\ Len(acts) = 0

scores(acts, nr_actions) ==
    IF ShiftRaises(acts, nr_actions) THEN Raise("IndexError")
    ELSE Ok(DataFrame(
            ScoresLoop(MakeY(acts), Series("goal", MakeY(acts).goal), 1, nr_actions),
            "scores"))

concedes(acts, nr_actions) ==
    IF ShiftRaises(acts, nr_actions) THEN Raise("IndexError")
    ELSE Ok(DataFrame(
            ConcedesLoop(MakeY(acts), Series("owngoal", MakeY(acts).owngoal), 1,
                         nr_actions),
            "concedes"))

(***************************************************************************)
(* The comparison of two team_id cells read one by one in the scan loops   *)
(* (y["team_id"][j] == possession_team): plain Python equality.            *)
(***************************************************************************)
CellEq(a, b) == a = b

(***************************************************************************)
(* The while loop of scores_time_based_window for action i, at position j: *)
(* TRUE when it reaches a break (a hit), FALSE when it ends on j reaching  *)
(* the end of the table or on the time test failing.                       *)
(***************************************************************************)
\* The scan ended after the first action it reads, hit or not.
ScoresScanOneStep(acts, y, i, j, nr_seconds) ==
    /\ j <= Len(acts)
    /\ Abs(acts[j].time_seconds - acts[i].time_seconds) < nr_seconds
    /\ \/ y.goal[j] /\ CellEq(y.team_id[j], acts[i].team_id)
       \/ y.owngoal[j] /\ ~CellEq(y.team_id[j], acts[i].team_id)

\* The scan with the time test turned into "exactly nr_seconds - 1 away".
RECURSIVE ScoresScanExactTime(_, _, _, _, _)
ScoresScanExactTime(acts, y, i, j, nr_seconds) ==
    IF ~(j <= Len(acts)
         /\ Abs(acts[j].time_seconds - acts[i].time_seconds) = nr_seconds - 1)
    THEN FALSE
    ELSE IF y.goal[j] /\ CellEq(y.team_id[j], acts[i].team_id) THEN TRUE
    ELSE IF y.owngoal[j] /\ ~CellEq(y.team_id[j], acts[i].team_id) THEN TRUE
    ELSE ScoresScanExactTime(acts, y, i, j + 1, nr_seconds)

RECURSIVE ScoresScan(_, _, _, _, _)
ScoresScan(acts, y, i, j, nr_seconds) ==
    IF ~(j <= Len(acts)
         /\ Abs(acts[j].time_seconds - acts[i].time_seconds) < nr_seconds)
    THEN FALSE
    ELSE IF y.goal[j] /\ CellEq(y.team_id[j], acts[i].team_id) THEN TRUE
    ELSE IF y.owngoal[j] /\ ~CellEq(y.team_id[j], acts[i].team_id) THEN TRUE
    ELSE ScoresScan(acts, y, i, j + 1, nr_seconds)

RECURSIVE ConcedesScan(_, _, _, _, _)
ConcedesScan(acts, y, i, j, nr_seconds) ==
    IF ~(j <= Len(acts)
         /\ Abs(acts[j].time_seconds - acts[i].time_seconds) < nr_seconds)
    THEN FALSE
    ELSE IF y.goal[j] /\ ~CellEq(y.team_id[j], acts[i].team_id) THEN TRUE
    ELSE IF y.owngoal[j] /\ CellEq(y.team_id[j], acts[i].team_id) THEN TRUE
    ELSE ConcedesScan(acts, y, i, j + 1, nr_seconds)

(***************************************************************************)
(* for i in range(len(actions)): ... res.at[i] = True.  When no round of   *)
(* the accumulation loop ran, res is the column y["goal"] (y["owngoal"])   *)
(* itself; `shared` says that the write through res.at is then seen in y   *)
(* (a view of the frame's data) rather than made on a private copy.        *)
(***************************************************************************)
RECURSIVE ScoresScanLoop(_, _, _, _, _, _)
ScoresScanLoop(acts, y, res, i, nr_seconds, shared) ==
    IF i > Len(acts) THEN res
    ELSE IF ScoresScan(acts, y, i, i + 1, nr_seconds)
    THEN ScoresScanLoop(acts,
            IF shared THEN [y EXCEPT !.goal[i] = TRUE] ELSE y,
            [res EXCEPT !.values[i] = TRUE], i + 1, nr_seconds, shared)
    ELSE ScoresScanLoop(acts, y, res, i + 1, nr_seconds, shared)

RECURSIVE ConcedesScanLoop(_, _, _, _, _, _)
ConcedesScanLoop(acts, y, res, i, nr_seconds, shared) ==
    IF i > Len(acts) THEN res
    ELSE IF ConcedesScan(acts, y, i, i + 1, nr_seconds)
    THEN ConcedesScanLoop(acts,
            IF shared THEN [y EXCEPT !.owngoal[i] = TRUE] ELSE y,
            [res EXCEPT !.values[i] = TRUE], i + 1, nr_seconds, shared)
    ELSE ConcedesScanLoop(acts, y, res, i + 1, nr_seconds, shared)

scores_time_based_window(acts, nr_seconds, nr_actions, view) ==
    IF ShiftRaises(acts, nr_actions) THEN Raise("IndexError")
    ELSE Ok(DataFrame(
            ScoresScanLoop(acts, MakeY(acts),
                ScoresLoop(MakeY(acts), Series("goal", MakeY(acts).goal), 1,
                           nr_actions),
                1, nr_seconds, view /\ nr_actions <= 1),
            "scores"))

concedes_time_based_window(acts, nr_seconds, nr_actions, view) ==
    IF ShiftRaises(acts, nr_actions) THEN Raise("IndexError")
    ELSE Ok(DataFrame(
            ConcedesScanLoop(acts, MakeY(acts),
                ConcedesLoop(MakeY(acts), Series("owngoal", MakeY(acts).owngoal), 1,
                             nr_actions),
                1, nr_seconds, view /\ nr_actions <= 1),
            "concedes"))

(***************************************************************************)
(* The value formula.  A column is a pandas Series: the sequence of its    *)
(* index labels and the sequence of its values, row by row.                *)
(***************************************************************************)
\* A missing numeric value, as index alignment introduces it.
NaN == -1000000000

\* The index of the action table: reset_index(drop=True) numbers the rows 0..n-1.
RangeIndex(n) == [p \in 1..n |-> p - 1]

Column(index, values) == [index |-> index, values |-> values]

Field(acts, name) ==
    Column(RangeIndex(Len(acts)), [p \in 1..Len(acts) |-> acts[p][name]])

Labels(x) == {x.index[p] : p \in DOMAIN x.index}

Has(x, label) == label \in Labels(x)

At(x, label) == x.values[CHOOSE p \in DOMAIN x.index : x.index[p] = label]

RECURSIVE SortedSeq(_)
SortedSeq(S) ==
    IF S = {} THEN <<>>
    ELSE LET least == CHOOSE m \in S : \A o \in S : m <= o
         IN <<least>> \o SortedSeq(S \ {least})

\* The index of the result of a binary operation: the operands' index when both
\* have the same one, else the sorted union of their labels.
JoinIndex(x, y) ==
    IF x.index = y.index THEN x.index ELSE SortedSeq(Labels(x) \cup Labels(y))

\* x.shift(1) followed by prev_x[:1] = x.values[0]; x is not empty.
_prev(x) ==
    Column(x.index,
        [p \in DOMAIN x.values |-> IF p = 1 THEN x.values[1] ELSE x.values[p - 1]])

\* _prev(actions.team_id) == actions.team_id: two columns of the action table.
SameTeam(acts) ==
    LET team == Field(acts, "team_id")
    IN Column(team.index,
          [p \in DOMAIN team.values |-> TeamEq(_prev(team).values[p], team.values[p])])

Invert(mask) == Column(mask.index, [p \in DOMAIN mask.values |-> ~mask.values[p]])

\* number * boolean: the boolean counts as 1 or 0.
TimesBool(v, b) == IF v = NaN THEN NaN ELSE IF b THEN v ELSE 0

Plus(v, w) == IF v = NaN \/ w = NaN THEN NaN ELSE v + w

Minus(v, w) == IF v = NaN \/ w = NaN THEN NaN ELSE v - w

Apply(op, v, w) ==
    CASE op = "*" -> TimesBool(v, w)
      [] op = "+" -> Plus(v, w)
      [] op = "-" -> Minus(v, w)

\* x op y on two Series: row by row on the labels both operands have, missing
\* on the labels only one of them has.
Aligned2(x, op, y) ==
    LET index == JoinIndex(x, y)
    IN Column(index,
          [p \in DOMAIN index |->
              IF Has(x, index[p]) /\ Has(y, index[p])
              THEN Apply(op, At(x, index[p]), At(y, index[p]))
              ELSE NaN])

Negate(x) ==
    Column(x.index,
        [p \in DOMAIN x.values |-> IF x.values[p] = NaN THEN NaN ELSE -x.values[p]])

\* _prev(same) * sameteam + _prev(other) * (~sameteam)
TeamContinuity(acts, same, other) ==
    Aligned2(Aligned2(_prev(same), "*", SameTeam(acts)),
             "+",
             Aligned2(_prev(other), "*", Invert(SameTeam(acts))))

_samephase_nb == 10

\* abs(actions.time_seconds - _prev(actions.time_seconds)) > _samephase_nb
TooLongAtLeast(d) == Abs(d) >= _samephase_nb

TooLong(d) == Abs(d) > _samephase_nb

toolong_idx(acts) ==
    LET t == Field(acts, "time_seconds")
    IN Column(t.index,
          [p \in DOMAIN t.values |-> TooLong(t.values[p] - _prev(t).values[p])])

\* _prev(type_name).isin([...]) & (_prev(result_name) == 'success')
ShotTypes == {"shot", "shot_freekick", "shot_penalty"}

prevgoal_idx(acts) ==
    LET ty == _prev(Field(acts, "type_name"))
        re == _prev(Field(acts, "result_name"))
    IN Column(ty.index,
          [p \in DOMAIN ty.values |->
              ty.values[p] \in ShotTypes /\ re.values[p] = "success"])

penalty_idx(acts) ==
    LET ty == Field(acts, "type_name")
    IN Column(ty.index, [p \in DOMAIN ty.values |-> ty.values[p] = "shot_penalty"])

corner_idx(acts) ==
    LET ty == Field(acts, "type_name")
    IN Column(ty.index,
          [p \in DOMAIN ty.values |->
              ty.values[p] \in {"corner_crossed", "corner_short"}])

\* x[mask] = v with a boolean Series as mask: the mask is looked up by x's
\* labels, and the assignment raises when the mask lacks one of them.
MaskCovers(x, mask) == Labels(x) \subseteq Labels(mask)

SetWhere(x, mask, v) ==
    Column(x.index,
        [p \in DOMAIN x.values |-> IF At(mask, x.index[p]) THEN v ELSE x.values[p]])

PenaltyPrior == 792453

CornerPrior == 46500

\* Lines 64-80 on the reference column, once the masks are known to cover it.
OffensiveOverridesPriorsFirst(acts, ref) ==
    SetWhere(SetWhere(SetWhere(SetWhere(ref,
        penalty_idx(acts), PenaltyPrior), corner_idx(acts), CornerPrior),
        toolong_idx(acts), 0), prevgoal_idx(acts), 0)

OffensiveOverrides(acts, ref) ==
    SetWhere(SetWhere(SetWhere(SetWhere(ref,
        toolong_idx(acts), 0), prevgoal_idx(acts), 0),
        penalty_idx(acts), PenaltyPrior), corner_idx(acts), CornerPrior)

\* Lines 131-138.
DefensiveOverridesWithPriors(acts, ref) == OffensiveOverrides(acts, ref)

DefensiveOverrides(acts, ref) ==
    SetWhere(SetWhere(ref, toolong_idx(acts), 0), prevgoal_idx(acts), 0)

\* x.values[0] on an empty column.
PrevRaises(acts, x, y) == Len(acts) = 0 \/ Len(x.values) = 0 \/ Len(y.values) = 0

offensive_value(acts, scores_standard, scores_resultfree, concedes_resultfree) ==
    IF PrevRaises(acts, scores_resultfree, concedes_resultfree)
    THEN Raise("IndexError")
    ELSE LET prev_scores_resultfree ==
                 TeamContinuity(acts, scores_resultfree, concedes_resultfree)
         IN IF ~MaskCovers(prev_scores_resultfree, toolong_idx(acts))
            THEN Raise("IndexingError")
            ELSE Ok(Aligned2(scores_standard, "-",
                        OffensiveOverrides(acts, prev_scores_resultfree)))

defensive_value(acts, scores_resultfree, concedes_standard, concedes_resultfree) ==
    IF PrevRaises(acts, concedes_resultfree, scores_resultfree)
    THEN Raise("IndexError")
    ELSE LET prev_concedes_resultfree ==
                 TeamContinuity(acts, concedes_resultfree, scores_resultfree)
         IN IF ~MaskCovers(prev_concedes_resultfree, toolong_idx(acts))
            THEN Raise("IndexingError")
            ELSE Ok(Negate(Aligned2(concedes_standard, "-",
                        DefensiveOverrides(acts, prev_concedes_resultfree))))

\* v[name] = column on a frame that already has an index: the column is looked
\* up by the frame's labels, missing where it has none.
Reindexed(x, index) ==
    [p \in DOMAIN index |-> IF Has(x, index[p]) THEN At(x, index[p]) ELSE NaN]

\* value with the defensive value subtracted from the offensive one.
valueAsDifference(acts, Pscores_standard, Pscores_resultfree, Pconcedes_standard, Pconcedes_resultfree) ==
    LET off == offensive_value(acts, Pscores_standard, Pscores_resultfree,
                               Pconcedes_resultfree)
        def == defensive_value(acts, Pscores_resultfree, Pconcedes_standard,
                               Pconcedes_resultfree)
    IN IF off.status = "raise" THEN off
       ELSE IF def.status = "raise" THEN def
       ELSE Ok([index |-> off.out.index,
                offensive_value |-> off.out.values,
                defensive_value |-> Reindexed(def.out, off.out.index),
                vaep_value |->
                    [p \in DOMAIN off.out.index |->
                        Minus(off.out.values[p],
                              Reindexed(def.out, off.out.index)[p])]])

value(acts, Pscores_standard, Pscores_resultfree, Pconcedes_standard, Pconcedes_resultfree) ==
    LET off == offensive_value(acts, Pscores_standard, Pscores_resultfree,
                               Pconcedes_resultfree)
        def == defensive_value(acts, Pscores_resultfree, Pconcedes_standard,
                               Pconcedes_resultfree)
    IN IF off.status = "raise" THEN off
       ELSE IF def.status = "raise" THEN def
       ELSE Ok([index |-> off.out.index,
                offensive_value |-> off.out.values,
                defensive_value |-> Reindexed(def.out, off.out.index),
                vaep_value |->
                    [p \in DOMAIN off.out.index |->
                        Plus(off.out.values[p],
                             Reindexed(def.out, off.out.index)[p])]])

(***************************************************************************)
(* Objects and item assignments.  The caller owns the action table (the    *)
(* object "actions") and the probability series (each by its argument      *)
(* name); every other Series or frame is made during the call.  An item    *)
(* assignment (x[...] = v, x.at[i] = v, frame[c] = x) changes the object   *)
(* it is applied to; it changes the caller's data exactly when that object *)
(* is one of the caller's.                                                 *)
(***************************************************************************)
Made == "made"

\* Series.shift, a binary or unary operation on Series, Series.astype,
\* pd.concat and pd.DataFrame each return a new object.
ShiftObject(x) == Made

BinopObject(x, y) == Made

AstypeObject(x) == Made

ConcatObject(parts) == Made

NewFrameObject == Made

\* frame[c], frame.c: the column is part of the frame.
ColumnObject(frame) == frame

\* One item assignment: the object and the column assigned to, the new value of
\* each assigned row (by position), and whether evaluating it raises.
ItemWrite(target, column, cells, raises) ==
    [target |-> target, column |-> column, cells |-> cells, raises |-> raises]

\* prev_x[:1] = x.values[0] in _prev(x), x being (a column of) the object obj.
_prev_write(obj, column, x) ==
    ItemWrite(ShiftObject(obj), column,
        [p \in {1} \cap DOMAIN x.values |-> x.values[1]], Len(x.values) = 0)

\* The rows of x that x[mask] = v assigns.
MaskCells(x, mask, v) ==
    [p \in {q \in DOMAIN x.index : Has(mask, x.index[q]) /\ At(mask, x.index[q])}
        |-> v]

\* What line 59 binds prev_scores_resultfree to, and line 127
\* prev_concedes_resultfree: the result of the `+`.
prev_scores_resultfree_argument == "scores_resultfree"

prev_scores_resultfree_object ==
    BinopObject(
        BinopObject(ShiftObject("scores_resultfree"),
                    BinopObject(ShiftObject(ColumnObject("actions")),
                                ColumnObject("actions"))),
        BinopObject(ShiftObject("concedes_resultfree"), Made))

prev_concedes_resultfree_object ==
    BinopObject(
        BinopObject(ShiftObject("concedes_resultfree"),
                    BinopObject(ShiftObject(ColumnObject("actions")),
                                ColumnObject("actions"))),
        BinopObject(ShiftObject("scores_resultfree"), Made))

\* The item assignments of offensive_value, in the order of execution.
offensive_value_writes(acts, scores_resultfree, concedes_resultfree) ==
    LET prev == TeamContinuity(acts, scores_resultfree, concedes_resultfree)
    IN << _prev_write(ColumnObject("actions"), "team_id", Field(acts, "team_id")),
          _prev_write("scores_resultfree", "values", scores_resultfree),
          _prev_write("concedes_resultfree", "values", concedes_resultfree),
          _prev_write(ColumnObject("actions"), "time_seconds",
                      Field(acts, "time_seconds")),
          ItemWrite(prev_scores_resultfree_object, "values",
                    MaskCells(prev, toolong_idx(acts), 0),
                    ~MaskCovers(prev, toolong_idx(acts))),
          _prev_write(ColumnObject("actions"), "type_name", Field(acts, "type_name")),
          _prev_write(ColumnObject("actions"), "result_name",
                      Field(acts, "result_name")),
          ItemWrite(prev_scores_resultfree_object, "values",
                    MaskCells(prev, prevgoal_idx(acts), 0), FALSE),
          ItemWrite(AstypeObject(prev_scores_resultfree_object), "values",
                    MaskCells(prev, penalty_idx(acts), PenaltyPrior), FALSE),
          ItemWrite(AstypeObject(prev_scores_resultfree_object), "values",
                    MaskCells(prev, corner_idx(acts), CornerPrior), FALSE) >>

\* The item assignments of defensive_value.
defensive_value_writes(acts, scores_resultfree, concedes_resultfree) ==
    LET prev == TeamContinuity(acts, concedes_resultfree, scores_resultfree)
    IN << _prev_write(ColumnObject("actions"), "team_id", Field(acts, "team_id")),
          _prev_write("concedes_resultfree", "values", concedes_resultfree),
          _prev_write("scores_resultfree", "values", scores_resultfree),
          _prev_write(ColumnObject("actions"), "time_seconds",
                      Field(acts, "time_seconds")),
          ItemWrite(prev_concedes_resultfree_object, "values",
                    MaskCells(prev, toolong_idx(acts), 0),
                    ~MaskCovers(prev, toolong_idx(acts))),
          _prev_write(ColumnObject("actions"), "type_name", Field(acts, "type_name")),
          _prev_write(ColumnObject("actions"), "result_name",
                      Field(acts, "result_name")),
          ItemWrite(prev_concedes_resultfree_object, "values",
                    MaskCells(prev, prevgoal_idx(acts), 0), FALSE) >>

\* v[column] = ... on the frame value makes; the rows written are those of the
\* Series assigned.
value_column_write(column, x) ==
    ItemWrite(NewFrameObject, column, [p \in DOMAIN x.values |-> x.values[p]], FALSE)

\* The item assignments of value: those of its two calls, each followed by the
\* assignment of the result to a column of v, then the column vaep_value.
value_writes(acts, Pscores_standard, Pscores_resultfree, Pconcedes_standard, Pconcedes_resultfree) ==
    LET off == offensive_value(acts, Pscores_standard, Pscores_resultfree,
                               Pconcedes_resultfree)
        def == defensive_value(acts, Pscores_resultfree, Pconcedes_standard,
                               Pconcedes_resultfree)
    IN offensive_value_writes(acts, Pscores_resultfree, Pconcedes_resultfree)
       \o (IF off.status = "ok"
           THEN <<value_column_write("offensive_value", off.out)>>
                \o defensive_value_writes(acts, Pscores_resultfree,
                                          Pconcedes_resultfree)
           ELSE <<>>)
       \o (IF off.status = "ok" /\ def.status = "ok"
           THEN <<value_column_write("defensive_value", def.out),
                  value_column_write("vaep_value", off.out)>>
           ELSE <<>>)

\* The frame y of the labelers: pd.concat of two computed Series and a column
\* of the action table.
y_object ==
    ConcatObject(<<BinopObject(Made, Made), BinopObject(Made, Made),
                   ColumnObject("actions")>>)

ShiftColumns == <<"team_id", "goal", "owngoal">>

\* Lines 39-43: for each i in 1..nr_actions-1 and each of the three columns,
\* shifted[-i:] = y[c].iloc[len(y) - 1] and then y["c+i"] = shifted.
ShiftWrites(acts, nr_actions) ==
    [k \in 1..(IF nr_actions >= 2 THEN 6 * (nr_actions - 1) ELSE 0) |->
        LET i == ((k - 1) \div 6) + 1
            c == ShiftColumns[(((k - 1) % 6) \div 2) + 1]
            col == MakeY(acts)[c]
        IN IF (k - 1) % 2 = 0
           THEN ItemWrite(ShiftObject(ColumnObject(y_object)), c,
                    [p \in {q \in 1..Len(col) : q + i > Len(col)} |-> col[Len(col)]],
                    Len(col) = 0)
           ELSE ItemWrite(y_object, c \o "+" \o ToString(i),
                    [p \in 1..Len(col) |-> Shifted(col, i)[p]], FALSE)]

\* What res names when the scan loop runs: the column y["goal"] (y["owngoal"])
\* when no round of the accumulation loop ran, else the result of the last `|`.
res_object(nr_actions) ==
    IF nr_actions <= 1 THEN ColumnObject(y_object)
    ELSE BinopObject(BinopObject(ColumnObject(y_object), Made), Made)

\* res.at[i] = True for each row i whose scan reaches a break.  A scan reads
\* rows after i only, so it reads no row an earlier res.at has written.
ScanWrites(acts, op, nr_seconds, nr_actions) ==
    LET hits == {i \in 1..Len(acts) :
                    IF op = "scores_time_based_window"
                    THEN ScoresScan(acts, MakeY(acts), i, i + 1, nr_seconds)
                    ELSE ConcedesScan(acts, MakeY(acts), i, i + 1, nr_seconds)}
        rows == SortedSeq(hits)
    IN [k \in 1..Len(rows) |->
           ItemWrite(res_object(nr_actions),
               IF op = "scores_time_based_window" THEN "goal" ELSE "owngoal",
               [p \in {rows[k]} |-> TRUE], FALSE)]

\* The item assignments of a labeler call.
LabelerWrites(acts, op, nr_seconds, nr_actions) ==
    ShiftWrites(acts, nr_actions)
    \o (IF op \in {"scores_time_based_window", "concedes_time_based_window"}
        THEN ScanWrites(acts, op, nr_seconds, nr_actions)
        ELSE <<>>)

\* The object a call returns.
ResultObject(op) ==
    CASE op = "offensive_value" ->
            BinopObject("scores_standard", AstypeObject(prev_scores_resultfree_object))
      [] op = "defensive_value" ->
            BinopObject(Made, BinopObject("concedes_standard",
                                          prev_concedes_resultfree_object))
      [] OTHER -> NewFrameObject

\* The caller's objects, by name, as one store.
Store(acts, series) ==
    [name \in {"actions"} \cup DOMAIN series |->
        IF name = "actions" THEN acts ELSE series[name]]

WriteCells(old, cells) ==
    [p \in DOMAIN old |-> IF p \in DOMAIN cells THEN cells[p] ELSE old[p]]

WriteTable(acts, column, cells) ==
    [p \in DOMAIN acts |->
        IF p \in DOMAIN cells
        THEN [f \in DOMAIN acts[p] \cup {column} |->
                 IF f = column THEN cells[p] ELSE acts[p][f]]
        ELSE acts[p]]

\* The store after one item assignment.
Written(store, w) ==
    IF w.target \notin DOMAIN store THEN store
    ELSE [store EXCEPT ![w.target] =
            IF w.target = "actions" THEN WriteTable(@, w.column, w.cells)
            ELSE Column(@.index, WriteCells(@.values, w.cells))]

\* The store after the item assignments k, k+1, ... up to the first that raises.
RECURSIVE AfterWrites(_, _, _)
AfterWrites(store, writes, k) ==
    IF k > Len(writes) \/ writes[k].raises THEN store
    ELSE AfterWrites(Written(store, writes[k]), writes, k + 1)

\* The objects the item assignments of a call are applied to.  A call whose
\* item assignments are all applied to objects made during the call leaves the
\* caller's objects as they are, whichever of them it executes.
LabelerTargets(nr_actions) ==
    {ShiftObject(ColumnObject(y_object)), y_object, res_object(nr_actions)}

offensive_value_targets ==
    {ShiftObject(ColumnObject("actions")), ShiftObject("scores_resultfree"),
     ShiftObject("concedes_resultfree"), prev_scores_resultfree_object,
     AstypeObject(prev_scores_resultfree_object)}

defensive_value_targets ==
    {ShiftObject(ColumnObject("actions")), ShiftObject("scores_resultfree"),
     ShiftObject("concedes_resultfree"), prev_concedes_resultfree_object}

FormulaTargets(op) ==
    CASE op = "offensive_value" -> offensive_value_targets
      [] op = "defensive_value" -> defensive_value_targets
      [] op = "value" ->
            offensive_value_targets \cup defensive_value_targets \cup {NewFrameObject}

\* The caller's objects after a call.
LabelerInputs(acts, op, nr_seconds, nr_actions) ==
    IF LabelerTargets(nr_actions) \cap DOMAIN Store(acts, <<>>) = {}
    THEN Store(acts, <<>>)
    ELSE AfterWrites(Store(acts, <<>>),
                     LabelerWrites(acts, op, nr_seconds, nr_actions), 1)

FormulaWrites(op, acts, series) ==
    CASE op = "offensive_value" ->
            offensive_value_writes(acts, series["scores_resultfree"],
                                   series["concedes_resultfree"])
      [] op = "defensive_value" ->
            defensive_value_writes(acts, series["scores_resultfree"],
                                   series["concedes_resultfree"])
      [] op = "value" ->
            value_writes(acts, series["scores_standard"], series["scores_resultfree"],
                         series["concedes_standard"], series["concedes_resultfree"])

FormulaInputs(op, acts, series) ==
    IF FormulaTargets(op) \cap DOMAIN Store(acts, series) = {}
    THEN Store(acts, series)
    ELSE AfterWrites(Store(acts, series), FormulaWrites(op, acts, series), 1)

SeriesOf(store) == [name \in DOMAIN store \ {"actions"} |-> store[name]]

(***************************************************************************)
(* Inputs.                                                                 *)
(***************************************************************************)
Action(team, type, res, t, period) ==
    [team_id |-> team, type_name |-> type, result_name |-> res,
     time_seconds |-> t, period_id |-> period]

\* Rows are ordered by (period_id, time_seconds) (mygameplan.py line 83).
Sorted(acts) ==
    \A p \in 1..(Len(acts) - 1) :
        \/ acts[p].period_id < acts[p + 1].period_id
        \/ /\ acts[p].period_id = acts[p + 1].period_id
           /\ acts[p].time_seconds <= acts[p + 1].time_seconds

SeqsUpTo(S, n) == UNION {[1..m -> S] : m \in 0..n}

NoProbs == <<>>

NoCall == [op |-> "none", nr_actions |-> 0, nr_seconds |-> 0, view |-> FALSE]

NoResult == [status |-> "none", out |-> <<>>]

\* The caller holds no MyGamePlan event list.
NoEvents == <<>>

CountTypes == {"pass", "shot"}

CountResults == {"success", "owngoal"}

CountActions ==
    {Action(tm, ty, r, 0, 1) : tm \in Teams, ty \in CountTypes, r \in CountResults}

\* nr_actions values tried, the non-positive ones included.
CountHorizons == (-1)..MaxK

InitCount ==
    /\ actions \in SeqsUpTo(CountActions, MaxLen)
    /\ probs = NoProbs
    /\ call = NoCall
    /\ result = NoResult
    /\ events = NoEvents

CallScores ==
    /\ call.op = "none"
    /\ \E k \in CountHorizons :
        /\ call' = [op |-> "scores", nr_actions |-> k, nr_seconds |-> 0, view |-> FALSE]
        /\ result' = scores(actions, k)
    /\ actions' = LabelerInputs(actions, call'.op, 0, call'.nr_actions).actions
    /\ UNCHANGED <<probs, events>>

CallConcedes ==
    /\ call.op = "none"
    /\ \E k \in CountHorizons :
        /\ call' = [op |-> "concedes", nr_actions |-> k, nr_seconds |-> 0, view |-> FALSE]
        /\ result' = concedes(actions, k)
    /\ actions' = LabelerInputs(actions, call'.op, 0, call'.nr_actions).actions
    /\ UNCHANGED <<probs, events>>

NextCount == CallScores \/ CallConcedes

SpecCount == InitCount /\ [][NextCount]_vars

(***************************************************************************)
(* The four labelers on timed tables of one or two periods.                *)
(***************************************************************************)
TimedTeams == {1, 2}

TimedKinds == {<<"pass", "success">>, <<"shot", "success">>, <<"shot", "owngoal">>}

\* time_seconds restarts in each period.
TimedTimes == {0, 1}

TimedPeriods == {1, 2}

TimedActions ==
    {Action(tm, k[1], k[2], t, per) :
        tm \in TimedTeams, k \in TimedKinds, t \in TimedTimes, per \in TimedPeriods}

\* nr_actions and nr_seconds values tried, zero included.
TimedHorizons == 0..MaxKT

TimedSeconds == 0..MaxSeconds

InitLabels ==
    /\ actions \in {a \in SeqsUpTo(TimedActions, MaxLenT) : Sorted(a)}
    /\ probs = NoProbs
    /\ call = NoCall
    /\ result = NoResult
    /\ events = NoEvents

CallScoresOn ==
    /\ call.op = "none"
    /\ \E k \in TimedHorizons :
        /\ call' = [op |-> "scores", nr_actions |-> k, nr_seconds |-> 0, view |-> FALSE]
        /\ result' = scores(actions, k)
    /\ actions' = LabelerInputs(actions, call'.op, 0, call'.nr_actions).actions
    /\ UNCHANGED <<probs, events>>

CallConcedesOn ==
    /\ call.op = "none"
    /\ \E k \in TimedHorizons :
        /\ call' = [op |-> "concedes", nr_actions |-> k, nr_seconds |-> 0, view |-> FALSE]
        /\ result' = concedes(actions, k)
    /\ actions' = LabelerInputs(actions, call'.op, 0, call'.nr_actions).actions
    /\ UNCHANGED <<probs, events>>

CallScoresTimeBasedWindow ==
    /\ call.op = "none"
    /\ \E k \in TimedHorizons, t \in TimedSeconds, v \in BOOLEAN :
        /\ k >= 2 => ~v
        /\ call' = [op |-> "scores_time_based_window", nr_actions |-> k,
                    nr_seconds |-> t, view |-> v]
        /\ result' = scores_time_based_window(actions, t, k, v)
    /\ actions' = LabelerInputs(actions, call'.op, call'.nr_seconds,
                                 call'.nr_actions).actions
    /\ UNCHANGED <<probs, events>>

CallConcedesTimeBasedWindow ==
    /\ call.op = "none"
    /\ \E k \in TimedHorizons, t \in TimedSeconds, v \in BOOLEAN :
        /\ k >= 2 => ~v
        /\ call' = [op |-> "concedes_time_based_window", nr_actions |-> k,
                    nr_seconds |-> t, view |-> v]
        /\ result' = concedes_time_based_window(actions, t, k, v)
    /\ actions' = LabelerInputs(actions, call'.op, call'.nr_seconds,
                                 call'.nr_actions).actions
    /\ UNCHANGED <<probs, events>>

NextLabels ==
    \/ CallScoresOn
    \/ CallConcedesOn
    \/ CallScoresTimeBasedWindow
    \/ CallConcedesTimeBasedWindow

SpecLabels == InitLabels /\ [][NextLabels]_vars

(***************************************************************************)
(* The value formula on action tables with aligned probability series.     *)
(***************************************************************************)
SeriesNames ==
    {"scores_standard", "scores_resultfree", "concedes_standard", "concedes_resultfree"}

\* The probability in row p of the series `name` of probability table v,
\* in units of 10^-6: distinct across series and rows.
ProbSeed(name) ==
    CASE name = "scores_standard" -> 310000
      [] name = "scores_resultfree" -> 120000
      [] name = "concedes_standard" -> 230000
      [] name = "concedes_resultfree" -> 50000

ProbValue(name, p, v) == (ProbSeed(name) * v + 7000 * (p - 1)) % 1000001

\* A series of n rows for a table of n actions, or one whose length or row
\* order differs from the table's.
ShapedSeries(name, shape, n, v) ==
    CASE shape = "aligned" ->
            Column(RangeIndex(n), [p \in 1..n |-> ProbValue(name, p, v)])
      [] shape = "longer" ->
            Column(RangeIndex(n + 1), [p \in 1..(n + 1) |-> ProbValue(name, p, v)])
      [] shape = "shorter" ->
            Column(RangeIndex(n - 1), [p \in 1..(n - 1) |-> ProbValue(name, p, v)])
      [] shape = "reversed" ->
            Column([p \in 1..n |-> n - p], [p \in 1..n |-> ProbValue(name, p, v)])

Shapes(n) ==
    {"aligned", "longer"}
    \cup (IF n >= 1 THEN {"shorter"} ELSE {})
    \cup (IF n >= 2 THEN {"reversed"} ELSE {})

\* The probability tables tried with each action table.
Profiles == {1, 2}

AlignedProbs(n, v) == [name \in SeriesNames |-> ShapedSeries(name, "aligned", n, v)]

FormulaKinds ==
    {<<"pass", "success">>, <<"shot", "success">>, <<"shot", "fail">>,
     <<"shot_penalty", "success">>, <<"corner_short", "success">>,
     <<"corner_crossed", "fail">>}

\* (period_id, time_seconds) of a row.
FormulaClock == {<<1, 0>>, <<1, 10>>, <<1, 21>>, <<2, 0>>}

FormulaActions ==
    {Action(tm, k[1], k[2], c[2], c[1]) :
        tm \in Teams, k \in FormulaKinds, c \in FormulaClock}

InitFormula ==
    /\ actions \in {a \in SeqsUpTo(FormulaActions, MaxLenF) : Sorted(a)}
    /\ \E v \in Profiles : probs = AlignedProbs(Len(actions), v)
    /\ call = NoCall
    /\ result = NoResult
    /\ events = NoEvents

CallOffensiveValue ==
    /\ call.op = "none"
    /\ call' = [op |-> "offensive_value", nr_actions |-> 0, nr_seconds |-> 0,
                view |-> FALSE]
    /\ result' = offensive_value(actions, probs["scores_standard"],
                    probs["scores_resultfree"], probs["concedes_resultfree"])
    /\ LET after == FormulaInputs(call'.op, actions, probs)
       IN actions' = after.actions /\ probs' = SeriesOf(after)
    /\ UNCHANGED events

CallDefensiveValue ==
    /\ call.op = "none"
    /\ call' = [op |-> "defensive_value", nr_actions |-> 0, nr_seconds |-> 0,
                view |-> FALSE]
    /\ result' = defensive_value(actions, probs["scores_resultfree"],
                    probs["concedes_standard"], probs["concedes_resultfree"])
    /\ LET after == FormulaInputs(call'.op, actions, probs)
       IN actions' = after.actions /\ probs' = SeriesOf(after)
    /\ UNCHANGED events

CallValue ==
    /\ call.op = "none"
    /\ call' = [op |-> "value", nr_actions |-> 0, nr_seconds |-> 0, view |-> FALSE]
    /\ result' = value(actions, probs["scores_standard"], probs["scores_resultfree"],
                    probs["concedes_standard"], probs["concedes_resultfree"])
    /\ LET after == FormulaInputs(call'.op, actions, probs)
       IN actions' = after.actions /\ probs' = SeriesOf(after)
    /\ UNCHANGED events

NextFormula == CallOffensiveValue \/ CallDefensiveValue \/ CallValue

SpecFormula == InitFormula /\ [][NextFormula]_vars

(***************************************************************************)
(* The value formula with series of any length and row order.              *)
(***************************************************************************)
PlainKinds == {<<"pass", "success">>, <<"shot", "success">>}

PlainActions == {Action(tm, k[1], k[2], 0, 1) : tm \in {1, 2}, k \in PlainKinds}

InitMisaligned ==
    /\ actions \in SeqsUpTo(PlainActions, MaxLenA)
    /\ \E shape \in [SeriesNames -> Shapes(Len(actions))] :
        probs = [name \in SeriesNames |->
                    ShapedSeries(name, shape[name], Len(actions), 1)]
    /\ call = NoCall
    /\ result = NoResult
    /\ events = NoEvents

SpecMisaligned == InitMisaligned /\ [][NextFormula]_vars

(***************************************************************************)
(* The two time-based labelers on tables that run from the end of one      *)
(* period into the start of the next, where time_seconds restarts.         *)
(***************************************************************************)
ScanClock == {<<1, 1>>, <<2, 0>>}

ScanActions ==
    {Action(tm, k[1], k[2], c[2], c[1]) :
        tm \in TimedTeams, k \in TimedKinds, c \in ScanClock}

InitScan ==
    /\ actions \in {a \in SeqsUpTo(ScanActions, MaxLenT) : Sorted(a)}
    /\ probs = NoProbs
    /\ call = NoCall
    /\ result = NoResult
    /\ events = NoEvents

NextScan == CallScoresTimeBasedWindow \/ CallConcedesTimeBasedWindow

SpecScan == InitScan /\ [][NextScan]_vars

(***************************************************************************)
(* Any of the seven operations on a table with aligned series.             *)
(***************************************************************************)
InputsKinds ==
    {<<"pass", "success">>, <<"shot", "success">>, <<"shot", "owngoal">>,
     <<"shot_penalty", "fail">>, <<"corner_short", "success">>}

InputsClock == {<<1, 0>>, <<1, 21>>}

InputsActions ==
    {Action(tm, k[1], k[2], c[2], c[1]) :
        tm \in TimedTeams, k \in InputsKinds, c \in InputsClock}

InitInputs ==
    /\ actions \in {a \in SeqsUpTo(InputsActions, MaxLenA) : Sorted(a)}
    /\ probs = AlignedProbs(Len(actions), 1)
    /\ call = NoCall
    /\ result = NoResult
    /\ events = NoEvents

NextInputs == NextLabels \/ NextFormula

SpecInputs == InitInputs /\ [][NextInputs]_vars

(***************************************************************************)
(* The MyGamePlan converter (socceraction.spadl.mygameplan).  An event is  *)
(* a record of the attributes the parsers read; coordinates, which no      *)
(* labeler reads, are left out.                                            *)
(***************************************************************************)
\* Python's None: the attribute is absent from the event.
None == "None"

\* pass.distance is absent.
NoDistance == -1

\* spadl.config.actiontypes, by name; type_id is the position in this list.
actiontypes == <<"pass", "cross", "throw_in", "freekick_crossed", "freekick_short", "corner_crossed", "corner_short", "take_on", "foul", "tackle", "interception", "shot", "shot_penalty", "shot_freekick", "keeper_save", "keeper_claim", "keeper_punch", "keeper_pick_up", "clearance", "bad_touch", "non_action", "dribble", "goalkick">>

TypeIndex(name) == CHOOSE k \in 1..Len(actiontypes) : actiontypes[k] = name

MyGamePlanEvent(event_type, set_piece_type, secondary, res, team, period, timestamp) ==
    [event_type |-> event_type, set_piece_type |-> set_piece_type,
     secondary_event_types |-> secondary, result |-> res, distance |-> NoDistance,
     body_part |-> None, team |-> team, period |-> period, timestamp |-> timestamp]

_parse_bodypart(body_part, default) ==
    IF body_part = None THEN default
    ELSE IF body_part = "head" THEN "head"
    ELSE IF body_part = "right_foot" THEN "foot_right"
    ELSE IF body_part = "left_foot" THEN "foot_left"
    ELSE "other"

_parse_pass_event(event) ==
    LET short == event.distance # NoDistance /\ event.distance < 20
        secondary == event.secondary_event_types
        a == IF event.set_piece_type = "throw_in" THEN "throw_in"
             ELSE IF event.set_piece_type = "goal_kick" THEN "goalkick"
             ELSE IF event.set_piece_type = "corner_kick"
                  THEN (IF short THEN "corner_short" ELSE "corner_crossed")
             ELSE IF "cross" \in secondary THEN "cross"
             ELSE IF "wide_free_kick" \in secondary \/ "other_free_kick" \in secondary
                  THEN (IF short THEN "freekick_short" ELSE "freekick_crossed")
             ELSE "pass"
        b == IF event.set_piece_type = "throw_in" THEN "other"
             ELSE _parse_bodypart(event.body_part, "foot")
    IN IF event.result \in {"incomplete", "out", "unsuccessful"} THEN <<a, "fail", b>>
       ELSE IF event.result = "offside" THEN <<a, "offside", b>>
       ELSE IF event.result \in {"successful", "complete"} THEN <<a, "success", b>>
       ELSE <<"non_action", "success", b>>

\* The shot parser without the reassignment of the type on an own goal.
_parse_shot_event_keeping_type(event) ==
    LET b == _parse_bodypart(event.body_part, "foot")
        a == IF event.set_piece_type \in {"direct_free_kick", "indirect_free_kick"}
             THEN "shot_freekick"
             ELSE IF event.set_piece_type = "penalty" THEN "shot_penalty"
             ELSE "shot"
    IN IF event.result = "goal" THEN <<a, "success", b>>
       ELSE IF event.result = "own_goal" THEN <<a, "owngoal", b>>
       ELSE <<a, "fail", b>>

_parse_shot_event(event) ==
    LET b == _parse_bodypart(event.body_part, "foot")
        a == IF event.set_piece_type \in {"direct_free_kick", "indirect_free_kick"}
             THEN "shot_freekick"
             ELSE IF event.set_piece_type = "penalty" THEN "shot_penalty"
             ELSE "shot"
    IN IF event.result = "goal" THEN <<a, "success", b>>
       ELSE IF event.result = "own_goal" THEN <<"bad_touch", "owngoal", b>>
       ELSE <<a, "fail", b>>

_parse_carry_event(event) == <<"dribble", "success", "foot">>

_parse_foul_event(event) ==
    IF "yellow_card" \in event.secondary_event_types
    THEN <<"foul", "yellow_card", "foot">>
    ELSE IF "red_card" \in event.secondary_event_types
    THEN <<"foul", "red_card", "foot">>
    ELSE <<"foul", "fail", "foot">>

_parse_duel_event(event) ==
    LET secondary == event.secondary_event_types
        a == IF ("sliding_tackle" \in secondary \/ "ground_duel" \in secondary)
                /\ "loose_ball_duel" \notin secondary
             THEN "tackle" ELSE "non_action"
        r == IF event.result = "unsuccessful" \/ event.result = "lost"
             THEN "fail" ELSE "success"
    IN <<a, r, "foot">>

_parse_clearance_event(event) == <<"clearance", "success", "foot">>

\* The tests run one after the other; the last one that holds sets the type.
_parse_goalkeeper_event(event) ==
    LET secondary == event.secondary_event_types
        a == IF "pick_up" \in secondary THEN "keeper_pick_up"
             ELSE IF "punch" \in secondary THEN "keeper_punch"
             ELSE IF "claim" \in secondary THEN "keeper_claim"
             ELSE IF "save" \in secondary THEN "keeper_save"
             ELSE "non_action"
    IN <<a, "success", "other">>

_parse_interception_event(event) ==
    <<"interception", IF event.result = "unsuccessful" THEN "fail" ELSE "success", "foot">>

_parse_take_on_event(event) ==
    <<"take_on", IF event.result = "successful" THEN "success" ELSE "fail", "foot">>

_parse_event_as_non_action(event) == <<"non_action", "success", "foot">>

_parse_event(event) ==
    LET parsed ==
            IF event.event_type = "pass" THEN _parse_pass_event(event)
            ELSE IF event.event_type = "shot" THEN _parse_shot_event(event)
            ELSE IF event.event_type = "carry" THEN _parse_carry_event(event)
            ELSE IF event.event_type = "foul" THEN _parse_foul_event(event)
            ELSE IF event.event_type = "duel" THEN _parse_duel_event(event)
            ELSE IF event.event_type = "clearance" THEN _parse_clearance_event(event)
            ELSE IF event.event_type = "keeper_defensive_action"
                 THEN _parse_goalkeeper_event(event)
            ELSE IF event.event_type \in {"interception", "recovery"}
                 THEN _parse_interception_event(event)
            ELSE IF event.event_type = "dribble" THEN _parse_take_on_event(event)
            ELSE _parse_event_as_non_action(event)
    IN [type_id |-> TypeIndex(parsed[1]), result_id |-> ResultIndex(parsed[2])]

\* One row of the list built by the loop of convert_to_actions.
ActionRow(event) ==
    [period_id |-> event.period, time_seconds |-> event.timestamp,
     team_id |-> event.team,          \* event.team._id, or NullTeam without a team
     type_id |-> _parse_event(event).type_id,
     result_id |-> _parse_event(event).result_id]

\* The row goes behind every row whose key (period_id, time_seconds) is not
\* greater: rows with equal keys keep the order they were inserted in.
InsertRow(sorted, row) ==
    LET KeyLe(r) ==
            \/ r.period_id < row.period_id
            \/ r.period_id = row.period_id /\ r.time_seconds <= row.time_seconds
        before == SelectSeq(sorted, KeyLe)
        behind == SelectSeq(sorted, LAMBDA r : ~KeyLe(r))
    IN before \o <<row>> \o behind

RECURSIVE sort_values(_, _)
sort_values(rows, k) ==
    IF k = 0 THEN <<>> ELSE InsertRow(sort_values(rows, k - 1), rows[k])

convert_to_actions(evs) ==
    IF evs = <<>> THEN Raise("KeyError")
    ELSE LET rows == [p \in 1..Len(evs) |-> ActionRow(evs[p])]
             kept == SelectSeq(rows, LAMBDA r : r.type_id # TypeIndex("non_action"))
             df_actions == sort_values(kept, Len(kept))
             \* with the type and result names, as the labelers read them
             named(row) ==
                 Action(row.team_id, actiontypes[row.type_id], results[row.result_id],
                        row.time_seconds, row.period_id)
         IN Ok([p \in 1..Len(df_actions) |-> named(df_actions[p])])

(***************************************************************************)
(* The four labelers on a table that convert_to_actions returned.          *)
(***************************************************************************)
\* Goals, own goals from open play and from a penalty, and an event that is
\* no action, by either team at either time; a pass without a team.
ConvertedEvents ==
    {MyGamePlanEvent(k[1], k[2], {}, k[3], tm, c[1], c[2]) :
        k \in {<<"shot", None, "goal">>, <<"shot", None, "own_goal">>,
               <<"shot", "penalty", "own_goal">>, <<"substitution", None, None>>},
        tm \in TimedTeams, c \in ScanClock}
    \cup {MyGamePlanEvent("pass", None, {}, "complete", NullTeam, 1, 1)}

InitConverted ==
    /\ events \in SeqsUpTo(ConvertedEvents, MaxLenA)
    /\ actions = <<>>
    /\ probs = NoProbs
    /\ call = NoCall
    /\ result = NoResult

\* actions = convert_to_actions(events); an exception ends the run.
ConvertToActions ==
    /\ call.op = "none"
    /\ actions = <<>>
    /\ LET converted == convert_to_actions(events)
       IN IF converted.status = "ok"
          THEN actions' = converted.out /\ UNCHANGED <<call, result>>
          ELSE /\ call' = [NoCall EXCEPT !.op = "convert_to_actions"]
               /\ result' = converted
               /\ UNCHANGED actions
    /\ UNCHANGED <<probs, events>>

NextConverted == ConvertToActions \/ NextLabels

SpecConverted == InitConverted /\ [][NextConverted]_vars

(***************************************************************************)
(* Vocabulary of the claims about the labelers.                            *)
(***************************************************************************)
ShotFamily == {"shot", "shot_penalty", "shot_freekick"}

IsGoal(a) == a.type_name \in ShotFamily /\ a.result_name = "success"

IsOwnGoal(a) == a.type_name \in ShotFamily /\ a.result_name = "owngoal"

NonNullTeams(acts) == \A p \in 1..Len(acts) : acts[p].team_id # NullTeam

\* Position i+k, clamped to the last position of the table.
Clamped(acts, i, k) == Min(i + k, Len(acts))

ExpectedScores(acts, K, i) ==
    \/ IsGoal(acts[i])
    \/ \E k \in 1..(K - 1) :
        \/ /\ IsGoal(acts[Clamped(acts, i, k)])
           /\ acts[Clamped(acts, i, k)].team_id = acts[i].team_id
        \/ /\ IsOwnGoal(acts[Clamped(acts, i, k)])
           /\ acts[Clamped(acts, i, k)].team_id # acts[i].team_id

ExpectedConcedes(acts, K, i) ==
    \/ IsOwnGoal(acts[i])
    \/ \E k \in 1..(K - 1) :
        \/ /\ IsGoal(acts[Clamped(acts, i, k)])
           /\ acts[Clamped(acts, i, k)].team_id # acts[i].team_id
        \/ /\ IsOwnGoal(acts[Clamped(acts, i, k)])
           /\ acts[Clamped(acts, i, k)].team_id = acts[i].team_id

\* Team 1 pass, team 1 goal, team 2 pass (the three-action scenario).
ScenarioActions ==
    <<Action(1, "pass", "success", 0, 1),
      Action(1, "shot", "success", 0, 1),
      Action(2, "pass", "success", 0, 1)>>

\* C1: on a non-empty table with non-null team_ids and K >= 1, scores returns,
\* for every action i, TRUE exactly when i is a goal or some offset k in 1..K-1
\* (position clamped to the last row) is a goal by i's team or an own goal by
\* the other team; with K = 1 the label is the action's own goal flag; in the
\* three-action scenario with K = 2 the first two labels are TRUE.
C1_ScoresDefinition ==
    (call.op = "scores" /\ call.nr_actions >= 1 /\ Len(actions) >= 1
     /\ NonNullTeams(actions))
    => /\ result.status = "ok"
       /\ DOMAIN result.out = 1..Len(actions)
       /\ \A i \in 1..Len(actions) :
            result.out[i] = ExpectedScores(actions, call.nr_actions, i)
       /\ call.nr_actions = 1 =>
            \A i \in 1..Len(actions) : result.out[i] = IsGoal(actions[i])
       /\ (actions = ScenarioActions /\ call.nr_actions = 2) =>
            (result.out[1] /\ result.out[2])

\* C2: on a non-empty table with non-null team_ids and K >= 1, concedes returns,
\* for every action i, TRUE exactly when i is an own goal or some offset k in
\* 1..K-1 (position clamped to the last row) is a goal by the other team or an
\* own goal by i's team: the formula of scores with the team tests exchanged and
\* the base term owngoal[i]; in the three-action scenario with K = 2 the first
\* and the third label are FALSE.
C2_ConcedesDefinition ==
    (call.op = "concedes" /\ call.nr_actions >= 1 /\ Len(actions) >= 1
     /\ NonNullTeams(actions))
    => /\ result.status = "ok"
       /\ DOMAIN result.out = 1..Len(actions)
       /\ \A i \in 1..Len(actions) :
            result.out[i] = ExpectedConcedes(actions, call.nr_actions, i)
       /\ (actions = ScenarioActions /\ call.nr_actions = 2) =>
            (~result.out[1] /\ ~result.out[3])

LabelOps == {"scores", "concedes", "scores_time_based_window", "concedes_time_based_window"}

TimeBasedOps == {"scores_time_based_window", "concedes_time_based_window"}

\* Action j is a hit of the scores scan (of the concedes scan) for action i.
ScoresHit(acts, i, j) ==
    \/ IsGoal(acts[j]) /\ acts[j].team_id = acts[i].team_id
    \/ IsOwnGoal(acts[j]) /\ acts[j].team_id # acts[i].team_id

ConcedesHit(acts, i, j) ==
    \/ IsGoal(acts[j]) /\ acts[j].team_id # acts[i].team_id
    \/ IsOwnGoal(acts[j]) /\ acts[j].team_id = acts[i].team_id

\* Action j is reached from action i through actions of i's period only, all
\* within nr_seconds of i.
ReachedInPeriod(acts, i, j, nr_seconds) ==
    /\ j > i
    /\ \A m \in (i + 1)..j :
        /\ acts[m].period_id = acts[i].period_id
        /\ Abs(acts[m].time_seconds - acts[i].time_seconds) < nr_seconds

\* C3: in the time-based labelers the forward scan for action i never depends on
\* an action of another period: a label that the count-based pre-check leaves
\* FALSE is TRUE only by a hit reached through actions of i's own period, also
\* when a row of the next period lies within nr_seconds of i by its time alone.
C3_PeriodBoundaryCutoff ==
    (call.op \in TimeBasedOps /\ result.status = "ok"
     /\ Len(result.out) = Len(actions))
    => \A i \in 1..Len(actions) :
        /\ (call.op = "scores_time_based_window" /\ result.out[i]
            /\ ~scores(actions, call.nr_actions).out[i])
           => \E j \in (i + 1)..Len(actions) :
                ReachedInPeriod(actions, i, j, call.nr_seconds)
                /\ ScoresHit(actions, i, j)
        /\ (call.op = "concedes_time_based_window" /\ result.out[i]
            /\ ~concedes(actions, call.nr_actions).out[i])
           => \E j \in (i + 1)..Len(actions) :
                ReachedInPeriod(actions, i, j, call.nr_seconds)
                /\ ConcedesHit(actions, i, j)

\* C4: every labeler, on every table (the empty one and a one-row one included)
\* and for every nr_actions and nr_seconds, returns without raising and returns
\* exactly one label per input row.
C4_LengthPreserved ==
    call.op \in LabelOps
    => /\ result.status = "ok"
       /\ Len(result.out) = Len(actions)

\* C5: a labeler called with nr_actions <= 0, or a time-based labeler called with
\* nr_seconds <= 0, fails with an error and returns no labels.
C5_InvalidConfigurationRejected ==
    (call.op \in LabelOps
     /\ (call.nr_actions <= 0 \/ (call.op \in TimeBasedOps /\ call.nr_seconds <= 0)))
    => result.status = "raise"

(***************************************************************************)
(* Vocabulary of the claims about the value formula.                       *)
(***************************************************************************)
FormulaOps == {"offensive_value", "defensive_value", "value"}

\* The series a call receives.
SeriesPassed(op) ==
    CASE op = "offensive_value" ->
            {"scores_standard", "scores_resultfree", "concedes_resultfree"}
      [] op = "defensive_value" ->
            {"scores_resultfree", "concedes_standard", "concedes_resultfree"}
      [] op = "value" -> SeriesNames

\* The series has one row per action, in the order of the action table.
RowAligned(x, acts) == x.index = RangeIndex(Len(acts))

P(name, i) == probs[name].values[i]

\* The offensive (defensive) values a finished call returned.
OffensiveOut ==
    IF call.op = "value" THEN result.out.offensive_value ELSE result.out.values

DefensiveOut ==
    IF call.op = "value" THEN result.out.defensive_value ELSE result.out.values

IsPenalty(a) == a.type_name = "shot_penalty"

IsCorner(a) == a.type_name \in {"corner_short", "corner_crossed"}

\* C6: a call of offensive_value, defensive_value or value with a probability
\* series whose length or row order differs from the action table's fails and
\* returns nothing.
C6_MisalignedInputsRejected ==
    (call.op \in FormulaOps
     /\ \E name \in SeriesPassed(call.op) : ~RowAligned(probs[name], actions))
    => result.status = "raise"

\* C7: whatever the preceding action (same team or not, more than 10 seconds
\* earlier or not, a goal or not) and whatever its position, a penalty shot has
\* offensive_value = scores_standard - 0.792453 and a short or crossed corner
\* has offensive_value = scores_standard - 0.046500.
C7_OverridePrecedence ==
    (call.op \in {"offensive_value", "value"} /\ Len(actions) >= 1)
    => /\ result.status = "ok"
       /\ \A i \in 1..Len(actions) :
            /\ IsPenalty(actions[i]) =>
                 OffensiveOut[i] = P("scores_standard", i) - 792453
            /\ IsCorner(actions[i]) =>
                 OffensiveOut[i] = P("scores_standard", i) - 46500

\* A penalty shot right after a goal and a corner more than 10 seconds after the
\* preceding action have been valued.
C7_Witness ==
    /\ call.op = "offensive_value" /\ result.status = "ok"
    /\ Len(actions) = 2
    /\ \/ IsPenalty(actions[2]) /\ IsGoal(actions[1])
       \/ /\ IsCorner(actions[2])
          /\ Abs(actions[2].time_seconds - actions[1].time_seconds) > 10
    /\ OffensiveOut[2] \in {P("scores_standard", 2) - 792453,
                            P("scores_standard", 2) - 46500}
    /\ OffensiveOut[2] # P("scores_standard", 2)

\* The reference of action i >= 2 as the claims C8 and C9 state it, `same` and
\* `other` being the series used for the same and for the other team.
StatedReference(acts, i, same, other) ==
    IF IsGoal(acts[i - 1]) THEN 0
    ELSE IF Abs(acts[i].time_seconds - acts[i - 1].time_seconds) > 10 THEN 0
    ELSE IF acts[i - 1].team_id = acts[i].team_id THEN P(same, i - 1)
    ELSE P(other, i - 1)

\* The same, a missing team_id being equal to no team_id.
KnownSameTeam(a, b) ==
    a.team_id # NullTeam /\ b.team_id # NullTeam /\ a.team_id = b.team_id

AmendedReference(acts, i, same, other) ==
    IF IsGoal(acts[i - 1]) THEN 0
    ELSE IF Abs(acts[i].time_seconds - acts[i - 1].time_seconds) > 10 THEN 0
    ELSE IF KnownSameTeam(acts[i - 1], acts[i]) THEN P(same, i - 1)
    ELSE P(other, i - 1)

C10_FirstActionReference ==
    (call.op \in FormulaOps /\ Len(actions) >= 1)
    => /\ result.status = "ok"
       /\ call.op \in {"offensive_value", "value"} =>
            OffensiveOut[1] =
                P("scores_standard", 1)
                - (IF IsCorner(actions[1]) THEN 46500
                   ELSE IF IsPenalty(actions[1]) THEN 792453
                   ELSE IF IsGoal(actions[1]) THEN 0
                   ELSE P("scores_resultfree", 1))
       /\ call.op \in {"defensive_value", "value"} =>
            DefensiveOut[1] =
                -(P("concedes_standard", 1)
                  - (IF IsGoal(actions[1]) THEN 0
                     ELSE P("concedes_resultfree", 1)))

(***************************************************************************)
(* Claims about the combined value.                                        *)
(***************************************************************************)
\* What offensive_value and defensive_value return on the inputs of the call.
OffensiveAlone ==
    offensive_value(actions, probs["scores_standard"], probs["scores_resultfree"],
                    probs["concedes_resultfree"])

DefensiveAlone ==
    defensive_value(actions, probs["scores_resultfree"], probs["concedes_standard"],
                    probs["concedes_resultfree"])

\* C11: value on a non-empty table returns one row per action; its columns
\* offensive_value and defensive_value are exactly what offensive_value and
\* defensive_value return on the same inputs, and in every row
\* vaep_value = offensive_value + defensive_value.
C11_CombinedValue ==
    (call.op = "value" /\ Len(actions) >= 1)
    => /\ result.status = "ok"
       /\ result.out.index = RangeIndex(Len(actions))
       /\ OffensiveAlone.status = "ok" /\ DefensiveAlone.status = "ok"
       /\ result.out.offensive_value = OffensiveAlone.out.values
       /\ result.out.defensive_value = DefensiveAlone.out.values
       /\ \A i \in 1..Len(actions) :
            result.out.vaep_value[i] =
                result.out.offensive_value[i] + result.out.defensive_value[i]

\* A two-action table has been valued, with a defensive value other than zero
\* in its second row.
C11_Witness ==
    /\ call.op = "value" /\ result.status = "ok"
    /\ Len(actions) = 2
    /\ result.out.defensive_value[2] # 0
    /\ result.out.offensive_value[2] # 0
    /\ result.out.vaep_value[2] =
        result.out.offensive_value[2] + result.out.defensive_value[2]

(***************************************************************************)
(* Relations between calls of the count-based labelers.                    *)
(***************************************************************************)
\* The rows scores or concedes returns for horizon K; none when it raises.
CountRows(op, acts, K) ==
    LET r == IF op = "scores" THEN scores(acts, K) ELSE concedes(acts, K)
    IN IF r.status = "ok" THEN r.out ELSE <<>>

CountOps == {"scores", "concedes"}

\* C12: on a fixed non-empty table, for K1 <= K2 (both >= 1), every row that
\* scores (concedes) labels TRUE with horizon K1 is a row it labels TRUE with
\* horizon K2; in particular an action's own goal (owngoal) flag, the horizon-1
\* label, stays TRUE for every K2 >= 2.
C12_HorizonMonotonicity ==
    (call.op \in CountOps /\ call.nr_actions >= 1 /\ Len(actions) >= 1)
    => /\ result.status = "ok"
       /\ \A K1 \in 1..call.nr_actions :
            \A i \in DOMAIN CountRows(call.op, actions, K1) :
                CountRows(call.op, actions, K1)[i]
                => (i \in DOMAIN result.out /\ result.out[i])
       /\ call.nr_actions >= 2 =>
            \A i \in 1..Len(actions) :
                /\ (call.op = "scores" /\ IsGoal(actions[i])) => result.out[i]
                /\ (call.op = "concedes" /\ IsOwnGoal(actions[i])) => result.out[i]

\* scores with horizon 3 has kept a label that horizon 2 gives and has added one
\* that horizon 2 does not give.
C12_Witness ==
    /\ call.op = "scores" /\ call.nr_actions = 3 /\ result.status = "ok"
    /\ Len(actions) = 3 /\ Len(result.out) = 3
    /\ \E i, j \in 1..3 :
        /\ CountRows("scores", actions, 2)[i] /\ result.out[i]
        /\ ~CountRows("scores", actions, 2)[j] /\ result.out[j]

\* C13: for every non-empty table and every K > 1, the label of the last action
\* is its own flag: scores[last] = goal[last] and concedes[last] = owngoal[last]
\* (the offsets past the end repeat the last action itself and add nothing).
C13_BoundarySaturation ==
    (call.op \in CountOps /\ call.nr_actions > 1 /\ Len(actions) >= 1)
    => /\ result.status = "ok"
       /\ Len(result.out) = Len(actions)
       /\ call.op = "scores" =>
            result.out[Len(actions)] = IsGoal(actions[Len(actions)])
       /\ call.op = "concedes" =>
            result.out[Len(actions)] = IsOwnGoal(actions[Len(actions)])

(***************************************************************************)
(* Claims about the caller's objects.                                      *)
(***************************************************************************)
\* C14: a call of scores, concedes, a time-based labeler, offensive_value,
\* defensive_value or value leaves the caller's action table and probability
\* series with exactly the values they had before the call, and what it returns
\* is an object made during the call.
C14_InputsNeverMutated ==
    [][(call.op = "none" /\ call'.op # "none")
       => /\ actions' = actions
          /\ probs' = probs
          /\ ResultObject(call'.op) = Made]_vars

\* offensive_value has assigned 0 to the reference of an action that comes more
\* than 10 seconds after the preceding one, and the caller's scores_resultfree
\* still holds the value of the preceding row.
C14_Witness ==
    /\ call.op = "offensive_value" /\ result.status = "ok"
    /\ Len(actions) = 2
    /\ Abs(actions[2].time_seconds - actions[1].time_seconds) > 10
    /\ ~IsPenalty(actions[2]) /\ ~IsCorner(actions[2])
    /\ OffensiveOut[2] = P("scores_standard", 2)
    /\ P("scores_resultfree", 1) = ProbValue("scores_resultfree", 1, 1)
    /\ P("scores_resultfree", 2) = ProbValue("scores_resultfree", 2, 1)
    /\ P("scores_resultfree", 2) # 0

(***************************************************************************)
(* Claims about the time-based labelers.                                   *)
(***************************************************************************)
\* Every action from i+1 up to j lies strictly within nr_seconds of action i.
ReachedInTime(acts, i, j, nr_seconds) ==
    /\ j > i
    /\ \A m \in (i + 1)..j :
        Abs(acts[m].time_seconds - acts[i].time_seconds) < nr_seconds

ExpectedScoresTimeBased(acts, nr_seconds, nr_actions, i) ==
    \/ ExpectedScores(acts, nr_actions, i)
    \/ \E j \in (i + 1)..Len(acts) :
        ReachedInTime(acts, i, j, nr_seconds) /\ ScoresHit(acts, i, j)

ExpectedConcedesTimeBased(acts, nr_seconds, nr_actions, i) ==
    \/ ExpectedConcedes(acts, nr_actions, i)
    \/ \E j \in (i + 1)..Len(acts) :
        ReachedInTime(acts, i, j, nr_seconds) /\ ConcedesHit(acts, i, j)

\* C15: on a non-empty table, with nr_actions >= 1 and nr_seconds >= 1,
\* scores_time_based_window returns one label per action, TRUE for action i
\* exactly when the count-based scores label of horizon nr_actions is TRUE for i
\* or some j > i, reached through actions that all lie strictly within
\* nr_seconds of i, is a goal by i's team or an own goal by the other team;
\* concedes_time_based_window likewise with the team tests exchanged and the
\* count-based concedes label.
C15_TimeBasedDefinition ==
    (call.op \in TimeBasedOps /\ call.nr_actions >= 1 /\ call.nr_seconds >= 1
     /\ Len(actions) >= 1)
    => /\ result.status = "ok"
       /\ DOMAIN result.out = 1..Len(actions)
       /\ \A i \in 1..Len(actions) :
            /\ call.op = "scores_time_based_window" =>
                result.out[i] = ExpectedScoresTimeBased(actions, call.nr_seconds,
                                                        call.nr_actions, i)
            /\ call.op = "concedes_time_based_window" =>
                result.out[i] = ExpectedConcedesTimeBased(actions, call.nr_seconds,
                                                          call.nr_actions, i)

\* The Series res of a time-based labeler when its scan loop has ended.
TimeBasedRes(op, acts, nr_seconds, nr_actions, view) ==
    IF op = "scores_time_based_window"
    THEN ScoresScanLoop(acts, MakeY(acts),
            ScoresLoop(MakeY(acts), Series("goal", MakeY(acts).goal), 1, nr_actions),
            1, nr_seconds, view /\ nr_actions <= 1)
    ELSE ConcedesScanLoop(acts, MakeY(acts),
            ConcedesLoop(MakeY(acts), Series("owngoal", MakeY(acts).owngoal), 1,
                         nr_actions),
            1, nr_seconds, view /\ nr_actions <= 1)

\* The Series res before the scan loop.
PreCheck(op, acts, nr_actions) ==
    IF op = "scores_time_based_window"
    THEN ScoresLoop(MakeY(acts), Series("goal", MakeY(acts).goal), 1, nr_actions)
    ELSE ConcedesLoop(MakeY(acts), Series("owngoal", MakeY(acts).owngoal), 1,
                      nr_actions)

\* The labels of a scan that goes on through every action within the time
\* bound and ORs all the hits, reading the flags and teams of the table as the
\* caller gave it.
ExhaustiveLabels(op, acts, nr_seconds, nr_actions) ==
    LET pre == PreCheck(op, acts, nr_actions).values
    IN [i \in 1..Len(acts) |->
           \/ pre[i]
           \/ \E j \in (i + 1)..Len(acts) :
               /\ ReachedInTime(acts, i, j, nr_seconds)
               /\ IF op = "scores_time_based_window"
                  THEN ScoresHit(acts, i, j) ELSE ConcedesHit(acts, i, j)]

\* C16: for every table, nr_seconds and nr_actions, the labels of the scan that
\* breaks at the first hit are the labels of the scan that goes on to the end of
\* the time bound and ORs all hits, whether or not the write res.at[i] = True
\* is seen in the frame y the scan reads; the returned frame is the same.
C16_EarlyExitNeutral ==
    (call.op \in TimeBasedOps /\ ~ShiftRaises(actions, call.nr_actions))
    => LET exhaustive ==
               ExhaustiveLabels(call.op, actions, call.nr_seconds, call.nr_actions)
       IN /\ TimeBasedRes(call.op, actions, call.nr_seconds, call.nr_actions,
                          call.view).values = exhaustive
          /\ result =
               Ok(DataFrame(
                   Series(PreCheck(call.op, actions, call.nr_actions).name, exhaustive),
                   IF call.op = "scores_time_based_window" THEN "scores"
                   ELSE "concedes"))

\* The scan for the first action broke at the second action while the third,
\* also within the time bound, is a hit too; and a scan wrote its label into
\* the frame y that the scans of the later actions read.
C16_Witness ==
    /\ call.op = "scores_time_based_window" /\ result.status = "ok"
    /\ Len(actions) = 3
    /\ ScoresHit(actions, 1, 2) /\ ScoresHit(actions, 1, 3)
    /\ ReachedInTime(actions, 1, 3, call.nr_seconds)
    /\ \/ call.nr_actions = 2 /\ Len(result.out) = 3 /\ result.out[1]
       \/ /\ call.nr_actions = 1 /\ call.view
          /\ ~IsGoal(actions[1])
          /\ TimeBasedRes(call.op, actions, call.nr_seconds, call.nr_actions,
                          call.view).values[1]

\* The rows of the frame a time-based labeler makes of its Series res.
FrameRows(op, res) ==
    DataFrame(res, IF op = "scores_time_based_window" THEN "scores" ELSE "concedes")

\* C19: on a fixed table with a fixed nr_actions, for T1 <= T2 every label that
\* a time-based labeler makes TRUE with nr_seconds = T1 it makes TRUE with
\* nr_seconds = T2, in the Series res and in the returned frame; with
\* nr_seconds = 0 the scan adds nothing and the call returns what the
\* count-based labeler returns for horizon nr_actions.
C19_TimeHorizonMonotonicity ==
    (call.op \in TimeBasedOps /\ ~ShiftRaises(actions, call.nr_actions))
    => LET now == TimeBasedRes(call.op, actions, call.nr_seconds, call.nr_actions,
                               call.view)
       IN /\ result = Ok(FrameRows(call.op, now))
          /\ \A T1 \in 0..(call.nr_seconds - 1) :
               LET before == TimeBasedRes(call.op, actions, T1, call.nr_actions,
                                          call.view)
               IN /\ \A i \in 1..Len(actions) : before.values[i] => now.values[i]
                  /\ \A i \in DOMAIN FrameRows(call.op, before) :
                       FrameRows(call.op, before)[i]
                       => (i \in DOMAIN result.out /\ result.out[i])
          /\ call.nr_seconds = 0 =>
               result = (IF call.op = "scores_time_based_window"
                         THEN scores(actions, call.nr_actions)
                         ELSE concedes(actions, call.nr_actions))

\* With nr_seconds = 2 a label that nr_seconds = 1 gives has been kept and a
\* label that nr_seconds = 1 does not give has been added.
C19_Witness ==
    /\ call.op = "scores_time_based_window" /\ call.nr_seconds = 2
    /\ call.nr_actions = 2 /\ result.status = "ok"
    /\ Len(actions) = 3 /\ Len(result.out) = 3
    /\ \E i, j \in 1..3 :
        /\ scores_time_based_window(actions, 1, 2, FALSE).out[i] /\ result.out[i]
        /\ ~scores_time_based_window(actions, 1, 2, FALSE).out[j] /\ result.out[j]
        /\ ~scores(actions, 2).out[j]

(***************************************************************************)
(* Claims about the end of the table.                                      *)
(***************************************************************************)
\* The labels of a window cut off at the end of the table: offsets past the
\* last action are not read.
TruncatedScores(acts, K, i) ==
    \/ IsGoal(acts[i])
    \/ \E k \in 1..(K - 1) :
        /\ i + k <= Len(acts)
        /\ \/ IsGoal(acts[i + k]) /\ acts[i + k].team_id = acts[i].team_id
           \/ IsOwnGoal(acts[i + k]) /\ acts[i + k].team_id # acts[i].team_id

TruncatedConcedes(acts, K, i) ==
    \/ IsOwnGoal(acts[i])
    \/ \E k \in 1..(K - 1) :
        /\ i + k <= Len(acts)
        /\ \/ IsGoal(acts[i + k]) /\ acts[i + k].team_id # acts[i].team_id
           \/ IsOwnGoal(acts[i + k]) /\ acts[i + k].team_id = acts[i].team_id

TruncatedLabels(op, acts, K) ==
    [i \in 1..Len(acts) |->
        IF op = "scores" THEN TruncatedScores(acts, K, i)
        ELSE TruncatedConcedes(acts, K, i)]

\* The Series res of a count-based labeler when its accumulation loop has ended.
CountRes(op, acts, nr_actions) ==
    IF op = "scores"
    THEN ScoresLoop(MakeY(acts), Series("goal", MakeY(acts).goal), 1, nr_actions)
    ELSE ConcedesLoop(MakeY(acts), Series("owngoal", MakeY(acts).owngoal), 1,
                      nr_actions)

\* C17: on a non-empty table without null team_id and for K >= 1, the labels
\* that scores and concedes compute with the offsets past the end filled from
\* the last action are the labels of a window cut off at the end of the table,
\* in the Series res and in the returned frame: the fill adds no TRUE label.
C17_SaturationEqualsTruncation ==
    (call.op \in CountOps /\ call.nr_actions >= 1 /\ Len(actions) >= 1
     /\ NonNullTeams(actions))
    => LET truncated == TruncatedLabels(call.op, actions, call.nr_actions)
           res == CountRes(call.op, actions, call.nr_actions)
       IN /\ res.values = truncated
          /\ result = Ok(DataFrame(Series(res.name, truncated), call.op))

\* scores with K = 3 on two actions of one team, the second a goal: for the
\* first action offset 2 is past the end and repeats the goal; for the second
\* both offsets are.
C17_Witness ==
    /\ call.op = "scores" /\ call.nr_actions = 3 /\ result.status = "ok"
    /\ Len(actions) = 2 /\ NonNullTeams(actions)
    /\ actions[1].team_id = actions[2].team_id
    /\ ~IsGoal(actions[1]) /\ IsGoal(actions[2])
    /\ result.out = <<TRUE, TRUE>>

\* The caller's table is the one convert_to_actions returned for its events.
IsConverted ==
    /\ events # NoEvents
    /\ convert_to_actions(events).status = "ok"
    /\ actions = convert_to_actions(events).out

\* The table with every own-goal result replaced by a plain failure.
WithoutOwnGoalResults(acts) ==
    [p \in 1..Len(acts) |->
        IF acts[p].result_name = "owngoal"
        THEN [acts[p] EXCEPT !.result_name = "fail"] ELSE acts[p]]

\* What the labeler op returns for the table acts with the arguments of c.
LabelerResult(c, acts) ==
    IF c.op = "scores" THEN scores(acts, c.nr_actions)
    ELSE IF c.op = "concedes" THEN concedes(acts, c.nr_actions)
    ELSE IF c.op = "scores_time_based_window"
    THEN scores_time_based_window(acts, c.nr_seconds, c.nr_actions, c.view)
    ELSE concedes_time_based_window(acts, c.nr_seconds, c.nr_actions, c.view)

\* The Series res of the labeler op on the table acts with the arguments of c.
LabelerRes(c, acts) ==
    IF c.op \in CountOps THEN CountRes(c.op, acts, c.nr_actions)
    ELSE TimeBasedRes(c.op, acts, c.nr_seconds, c.nr_actions, c.view)

\* C18: on a table returned by convert_to_actions no action has the owngoal
\* flag of the labelers, an own_goal event having become a bad_touch action,
\* and each of the four labelers computes, in its Series res and in what it
\* returns, the labels it computes when the own-goal results are taken out of
\* the table: only goals make a label TRUE.
C18_ConvertedOwnGoalsNeverFlagged ==
    IsConverted
    => /\ \A p \in 1..Len(actions) : ~owngoals(actions)[p]
       /\ call.op \in CountOps \cup TimeBasedOps
          => LET goalOnly == WithoutOwnGoalResults(actions)
             IN /\ LabelerRes(call, actions) = LabelerRes(call, goalOnly)
                /\ result = LabelerResult(call, goalOnly)

\* Two shot events of one team given out of order, the later one an own goal:
\* the table has them in order, the own goal as a bad_touch action, and
\* concedes with nr_actions = 2 labels neither action.
C18_Witness ==
    /\ IsConverted
    /\ Len(events) = 2
    /\ events[1].event_type = "shot" /\ events[1].result = "own_goal"
    /\ events[1].period = 2 /\ events[2].period = 1
    /\ Len(actions) = 2
    /\ actions[2].type_name = "bad_touch" /\ actions[2].result_name = "owngoal"
    /\ actions[1].team_id = actions[2].team_id
    /\ call.op = "concedes" /\ call.nr_actions = 2
    /\ result.status = "ok"
    /\ CountRes("concedes", actions, 2).values = <<FALSE, FALSE>>

====
